---- MODULE Spec2Model ----
(***************************************************************************)
(* Model of the review-acquisition pipeline of saas-review-scrapper:       *)
(* the /scrape endpoint (src/api.py), the CLI command (src/cli.py), the    *)
(* browser pagination drivers (src/scrapers/async_base_scraper.py,         *)
(* src/scrapers/base_scraper.py), the per-source extractors and the        *)
(* API / crawling-service / offline-snapshot acquisition functions.        *)
(*                                                                         *)
(* Calendar dates are day numbers.  Ratings are hundredths of a star, so   *)
(* the Review constraint 0 <= rating <= 5 is 0 <= v <= 500.                *)
(***************************************************************************)
EXTENDS Integers, Sequences, FiniteSets, TLC

(***************************************************************************)
(* Bounds of the model.                                                    *)
(***************************************************************************)
\* most extractions (page loads) the site serves one browser invocation
MaxPages == 3
\* most records a site, API or snapshot serves to one invocation
MaxRecs == 2
\* most records the extractions of one browser invocation read in all,
\* the records a "Load more" click left on the page counted again
MaxReads == 3
\* largest value of the request's limit
MaxLimit == 2
\* page size the API clients request (50 in the code, scaled down)
per_page == 2
\* dataset polls of the crawling-service client: range(30)
PollBudget == 30

(***************************************************************************)
(* Values.  A date value as it travels in a raw record's "date" key:       *)
(*   none  None / key missing                                              *)
(*   bad   a non-empty string dateutil cannot parse                        *)
(*   text  a string in a human format that parses to day d ("June 30, ..") *)
(*   iso   the string date(d).isoformat()                                  *)
(*   date  a datetime.date object                                          *)
(*   obj   a truthy JSON value that is neither a string nor a date and     *)
(*         whose str() holds no date                                       *)
(***************************************************************************)
DNone == [k |-> "none", d |-> 0]
DBad == [k |-> "bad", d |-> 0]
DObj == [k |-> "obj", d |-> 0]
DText(n) == [k |-> "text", d |-> n]
DIso(n) == [k |-> "iso", d |-> n]
DDate(n) == [k |-> "date", d |-> n]

\* isinstance(v, str)
IsStr(v) == v.k \in {"bad", "text", "iso"}
\* isinstance(v, date)
IsDate(v) == v.k = "date"

(***************************************************************************)
(* A rating as the site shows it (label text, star icons, JSON value):     *)
(*   none   absent / null                                                  *)
(*   num    a number, v hundredths                                         *)
(*   stars  v full-star icons and no label                                 *)
(*   word   text without any digit ("five")                                *)
(* and as the raw record carries it: none, or float (v hundredths).        *)
(***************************************************************************)
RNone == [k |-> "none", v |-> 0]
RNum(n) == [k |-> "num", v |-> n]
RStars(n) == [k |-> "stars", v |-> n]
RWord == [k |-> "word", v |-> 0]
RFloat(n) == [k |-> "float", v |-> n]

\* src/utils.py parse_date_fuzzy: None for a falsy or unparsable value, else
\* the date that str(s) parses to (str of a date object is its ISO form)
parse_date_fuzzy(s) ==
    IF s.k \in {"text", "iso", "date"} THEN DDate(s.d) ELSE DNone

\* date.isoformat()
isoformat(d) == DIso(d.d)

(***************************************************************************)
(* Raw records.  A raw record is the dict an extractor or fetch function   *)
(* builds: its "date" and "rating" keys, and src, the site element it was  *)
(* read from (history kept with the record, never read by the program).    *)
(***************************************************************************)
Rec(d, r, e) == [date |-> d, rating |-> r, src |-> e]
El(d, r) == [date |-> d, rating |-> r]

Min(a, b) == IF a <= b THEN a ELSE b

\* G2Scraper.extract_reviews_from_page, one article element: the date is the
\* time element's text as it stands; the rating is the number of the aria
\* label, else the count of star icons
G2Extract(e) ==
    Rec(e.date,
        CASE e.rating.k = "num" -> RFloat(e.rating.v)
          [] e.rating.k = "stars" /\ e.rating.v > 0 ->
                RFloat(100 * e.rating.v)
          [] OTHER -> RNone,
        e)

\* CapterraScraper.extract_reviews_from_page, one review card: the date is
\* a date object when the text parses and None otherwise; the rating is the
\* number next to the stars, else the star count capped at 5.0
CapterraExtract(e) ==
    Rec(IF IsStr(e.date) THEN parse_date_fuzzy(e.date) ELSE DNone,
        CASE e.rating.k = "num" -> RFloat(e.rating.v)
          [] e.rating.k = "stars" /\ e.rating.v > 0 ->
                RFloat(Min(500, 100 * e.rating.v))
          [] OTHER -> RNone,
        e)

\* TrustRadiusScraper.extract_reviews_from_page, one container element: the
\* date text as it stands; the rating is the first number of the label
TrustRadiusExtract(e) ==
    Rec(e.date,
        IF e.rating.k = "num" THEN RFloat(e.rating.v) ELSE RNone,
        e)

\* BaseScraper.extract_reviews_from_page is the subclass hook: the record
\* is the dict the subclass returns
BaseExtract(e) ==
    Rec(e.date,
        IF e.rating.k = "num" THEN RFloat(e.rating.v) ELSE RNone,
        e)

extract_reviews_from_page(source, els) ==
    [i \in DOMAIN els |->
        CASE source = "g2" -> G2Extract(els[i])
          [] source = "capterra" -> CapterraExtract(els[i])
          [] source = "trustradius" -> TrustRadiusExtract(els[i])
          [] OTHER -> BaseExtract(els[i])]

(***************************************************************************)
(* The per-page date filter of scrape(): the d of one record, and the      *)
(* loop that keeps a record when d is None or start <= d <= end.  A kept   *)
(* record with a date has its "date" key rewritten in place to the ISO     *)
(* string, so the page's list sees the rewrite too.                        *)
(***************************************************************************)
PageDate(r) ==
    IF IsDate(r.date) THEN r.date
    ELSE IF IsStr(r.date) THEN parse_date_fuzzy(r.date)
    ELSE DNone

\* AsyncBaseScraper.scrape, body of "for r in reviews"
PageFilterStep(r, start, end) ==
    LET d == PageDate(r) IN
    IF d = DNone THEN [keep |-> TRUE, r |-> r]
    ELSE IF start <= d.d /\ d.d <= end
         THEN [keep |-> TRUE, r |-> [r EXCEPT !.date = isoformat(d)]]
         ELSE [keep |-> FALSE, r |-> r]

\* BaseScraper.scrape, body of "for r in reviews"
BasePageFilterStep(r, start, end) ==
    LET d == PageDate(r) IN
    IF d = DNone THEN [keep |-> TRUE, r |-> r]
    ELSE IF start <= d.d /\ d.d <= end
         THEN [keep |-> TRUE, r |-> [r EXCEPT !.date = isoformat(d)]]
         ELSE [keep |-> FALSE, r |-> r]

FilterStep(source, r, start, end) ==
    IF source = "base" THEN BasePageFilterStep(r, start, end)
    ELSE PageFilterStep(r, start, end)

RECURSIVE FilterLoop(_, _, _, _, _, _)
\* a filter loop that puts each kept record in front of the kept list
FilterLoopPrepending(source, reviews, i, kept, start, end) ==
    IF i > Len(reviews) THEN [kept |-> kept, reviews |-> reviews]
    ELSE LET s == FilterStep(source, reviews[i], start, end) IN
         FilterLoop(source, [reviews EXCEPT ![i] = s.r], i + 1,
                    IF s.keep THEN <<s.r>> \o kept ELSE kept, start, end)

\* the loop over reviews from index i: kept so far, and the page list
FilterLoop(source, reviews, i, kept, start, end) ==
    IF i > Len(reviews) THEN [kept |-> kept, reviews |-> reviews]
    ELSE LET s == FilterStep(source, reviews[i], start, end) IN
         FilterLoop(source, [reviews EXCEPT ![i] = s.r], i + 1,
                    IF s.keep THEN Append(kept, s.r) ELSE kept, start, end)

(***************************************************************************)
(* should_stop_paging.  The d of one record of the first loop; comparing   *)
(* a value that is no date with start_date raises TypeError.               *)
(***************************************************************************)
StopDate(r) ==
    IF IsStr(r.date) THEN parse_date_fuzzy(r.date)
    ELSE IF r.date.k # "none" THEN r.date
    ELSE DNone

\* the first loop meets a d that cannot be compared with a date
StopRaises(reviews_on_page) ==
    \E i \in DOMAIN reviews_on_page : StopDate(reviews_on_page[i]).k = "obj"

any_parsable(reviews_on_page) ==
    \E i \in DOMAIN reviews_on_page : StopDate(reviews_on_page[i]) # DNone

any_in_range(reviews_on_page, start, end) ==
    \E i \in DOMAIN reviews_on_page :
        LET d == StopDate(reviews_on_page[i]) IN
        d # DNone /\ start <= d.d /\ d.d <= end

\* a stop decision with the comparison reversed: older is cleared by a
\* date before start_date
StopPagingWhenNewer(reviews_on_page, start, end) ==
    IF any_parsable(reviews_on_page) /\ ~any_in_range(reviews_on_page, start, end)
    THEN LET older ==
               ~\E i \in DOMAIN reviews_on_page :
                   /\ reviews_on_page[i].date.k # "none"
                   /\ LET pd == parse_date_fuzzy(reviews_on_page[i].date) IN
                      pd # DNone /\ pd.d < start
         IN older
    ELSE FALSE

\* AsyncBaseScraper.should_stop_paging: older stays True unless a record
\* with a truthy date parses to a date >= start_date
should_stop_paging(reviews_on_page, start, end) ==
    IF any_parsable(reviews_on_page) /\ ~any_in_range(reviews_on_page, start, end)
    THEN LET older ==
               ~\E i \in DOMAIN reviews_on_page :
                   /\ reviews_on_page[i].date.k # "none"
                   /\ LET pd == parse_date_fuzzy(reviews_on_page[i].date) IN
                      pd # DNone /\ pd.d >= start
         IN older
    ELSE FALSE

\* BaseScraper.should_stop_paging: older is all(parse(date) and
\* parse(date) < start_date) over the records with a truthy date
base_should_stop_paging(reviews_on_page, start, end) ==
    IF any_parsable(reviews_on_page) /\ ~any_in_range(reviews_on_page, start, end)
    THEN LET older ==
               \A i \in DOMAIN reviews_on_page :
                   reviews_on_page[i].date.k # "none" =>
                      LET pd == parse_date_fuzzy(reviews_on_page[i].date) IN
                      pd # DNone /\ pd.d < start
         IN older
    ELSE FALSE

ShouldStop(source, reviews_on_page, start, end) ==
    IF source = "base" THEN base_should_stop_paging(reviews_on_page, start, end)
    ELSE should_stop_paging(reviews_on_page, start, end)

(***************************************************************************)
(* The /scrape endpoint's date filter, limit and validation.               *)
(***************************************************************************)
\* _in_range compares dd with req.start: TypeError when dval is neither
\* None, a string nor a date
InRangeRaises(dval) == dval.k = "obj"

\* _in_range with the end of the window excluded
InRangeEndExclusive(dval, start, end) ==
    IF dval = DNone THEN TRUE
    ELSE LET dd == IF IsStr(dval) THEN parse_date_fuzzy(dval) ELSE dval IN
         IF dd = DNone THEN TRUE
         ELSE IF dd.d < start THEN FALSE
         ELSE IF dd.d >= end THEN FALSE
         ELSE TRUE

\* scrape._in_range
_in_range(dval, start, end) ==
    IF dval = DNone THEN TRUE
    ELSE LET dd == IF IsStr(dval) THEN parse_date_fuzzy(dval) ELSE dval IN
         IF dd = DNone THEN TRUE
         ELSE IF dd.d < start THEN FALSE
         ELSE IF dd.d > end THEN FALSE
         ELSE TRUE

RECURSIVE SelectInRange(_, _, _)
\* [r for r in raw_reviews if _in_range(r.get("date"))]
SelectInRange(raw, start, end) ==
    IF raw = <<>> THEN <<>>
    ELSE LET rest == SelectInRange(Tail(raw), start, end) IN
         IF _in_range(Head(raw).date, start, end) THEN <<Head(raw)>> \o rest
         ELSE rest

\* raw_reviews[: limit] for a limit >= 0
Take(s, n) == SubSeq(s, 1, Min(n, Len(s)))

\* models.Review: date is Optional[date] (None, a date, or an ISO string
\* coerced to a date); rating is Optional[float] with ge=0, le=5
ReviewValid(r) ==
    /\ r.date.k \in {"none", "iso", "date"}
    /\ r.rating.k = "none" \/ (0 <= r.rating.v /\ r.rating.v <= 500)

\* Review(**r) of a valid record: the date coerced to a date object
Review(r) ==
    [date |-> IF r.date.k = "none" THEN DNone ELSE DDate(r.date.d),
     rating |-> r.rating, src |-> r.src]

RECURSIVE ValidateLoop(_, _, _)
\* a validation loop that a failing record ends
ValidateLoopAborting(raw, review_models, invalid) ==
    IF raw = <<>> THEN [review_models |-> review_models, invalid |-> invalid]
    ELSE IF ReviewValid(Head(raw))
         THEN ValidateLoop(Tail(raw), Append(review_models, Review(Head(raw))), invalid)
         ELSE [review_models |-> review_models, invalid |-> invalid + 1]

\* for r in raw_reviews: try review_models.append(Review(**r))
\*                       except: invalid += 1
ValidateLoop(raw, review_models, invalid) ==
    IF raw = <<>> THEN [review_models |-> review_models, invalid |-> invalid]
    ELSE IF ReviewValid(Head(raw))
         THEN ValidateLoop(Tail(raw), Append(review_models, Review(Head(raw))), invalid)
         ELSE ValidateLoop(Tail(raw), review_models, invalid + 1)

(***************************************************************************)
(* The inline normalizers of the API, crawling-service and snapshot        *)
(* acquisition functions, one item each.                                   *)
(***************************************************************************)
\* "date": d.isoformat() if d else dt, with d parsed from a string dt only
ApiDate(dt) ==
    LET d == IF IsStr(dt) THEN parse_date_fuzzy(dt) ELSE DNone IN
    IF d # DNone THEN isoformat(d) ELSE dt

\* float(rating) raises ValueError on text that is no number
FloatRaises(it) == it.rating.k = "word"

\* fetch_g2_reviews_api, the dict appended for one item
G2ApiItem(it) ==
    Rec(ApiDate(it.date),
        IF it.rating.k = "num" THEN RFloat(it.rating.v) ELSE RNone,
        it)

\* fetch_capterra_reviews_api, the dict appended for one item
CapterraApiItem(it) ==
    Rec(ApiDate(it.date),
        IF it.rating.k = "num" THEN RFloat(it.rating.v) ELSE RNone,
        it)

\* fetch_capterra_reviews_api, "Date filtering": the item is skipped when
\* its string date parses to a date outside [start, end]
CapterraApiSkips(it, start, end) ==
    LET d == IF IsStr(it.date) THEN parse_date_fuzzy(it.date) ELSE DNone IN
    d # DNone /\ (d.d < start \/ d.d > end)

\* fetch_trustradius_via_apify, the dict appended for one item
ApifyItem(it) == Rec(ApiDate(it.date), RNone, it)

\* parse_g2_reviews_from_html, the dict appended for one Review node: the
\* date parsed whatever its type, float(ratingValue) guarded by try/except
SnapshotNode(node) ==
    LET d == parse_date_fuzzy(node.date) IN
    Rec(IF d # DNone THEN isoformat(d) ELSE node.date,
        IF node.rating.k = "num" THEN RFloat(node.rating.v) ELSE RNone,
        node)

parse_g2_reviews_from_html(nodes) ==
    [i \in DOMAIN nodes |-> SnapshotNode(nodes[i])]

RECURSIVE G2ItemsLoop(_, _, _, _)
\* fetch_g2_reviews_api, "for it in items": the list collected, and how the
\* loop ends: "next" (fell through), "return" (limit reached,
\* collected[:limit] returned) or "raise" (ValueError of float(rating))
G2ItemsLoop(r, items, i, collected) ==
    IF i > Len(items) THEN [collected |-> collected, end |-> "next"]
    ELSE IF FloatRaises(items[i]) THEN [collected |-> collected, end |-> "raise"]
    ELSE LET c == Append(collected, G2ApiItem(items[i])) IN
         IF r.has_limit /\ Len(c) >= r.limit
         THEN [collected |-> Take(c, r.limit), end |-> "return"]
         ELSE G2ItemsLoop(r, items, i + 1, c)

RECURSIVE CapterraItemsLoop(_, _, _, _)
\* fetch_capterra_reviews_api, "for it in items"
CapterraItemsLoop(r, items, i, collected) ==
    IF i > Len(items) THEN [collected |-> collected, end |-> "next"]
    ELSE IF CapterraApiSkips(items[i], r.start, r.end)
    THEN CapterraItemsLoop(r, items, i + 1, collected)
    ELSE IF FloatRaises(items[i]) THEN [collected |-> collected, end |-> "raise"]
    ELSE LET c == Append(collected, CapterraApiItem(items[i])) IN
         IF r.has_limit /\ Len(c) >= r.limit
         THEN [collected |-> Take(c, r.limit), end |-> "return"]
         ELSE CapterraItemsLoop(r, items, i + 1, c)

RECURSIVE ApifyItemsLoop(_, _, _, _)
\* fetch_trustradius_via_apify, "for it in items"
ApifyItemsLoop(r, items, i, collected) ==
    IF i > Len(items) THEN [collected |-> collected, end |-> "next"]
    ELSE LET c == Append(collected, ApifyItem(items[i])) IN
         IF r.has_limit /\ Len(c) >= r.limit
         THEN [collected |-> Take(c, r.limit), end |-> "return"]
         ELSE ApifyItemsLoop(r, items, i + 1, c)

(***************************************************************************)
(* What the outside world can hand to one invocation.                      *)
(***************************************************************************)
SeqsUpTo(S, n) == UNION {[1..k -> S] : k \in 0..n}

\* review cards of a live page: date text and rating label / star icons
DomElements ==
    {El(DText(1), RNum(300)), El(DText(0), RNum(300)), El(DText(3), RNum(300)),
     El(DBad, RNum(300)), El(DNone, RNone), El(DText(2), RNum(700)),
     El(DText(2), RStars(6))}

\* dicts a BaseScraper subclass may return from its extractor hook
BaseRecords ==
    {El(DText(1), RNum(300)), El(DText(0), RNum(300)), El(DText(3), RNum(300)),
     El(DBad, RNum(300)), El(DNone, RNone), El(DText(2), RNum(700)),
     El(DObj, RNum(300))}

PageElements(source) == IF source = "base" THEN BaseRecords ELSE DomElements

\* JSON items of an API response, dataset items, JSON-LD Review nodes
JsonItems ==
    {El(DText(1), RNum(300)), El(DText(0), RNum(300)), El(DText(3), RNum(300)),
     El(DBad, RNum(300)), El(DNone, RNone), El(DText(2), RNum(700)),
     El(DObj, RNum(300)), El(DText(2), RWord)}

\* the date windows requested
Windows == {[start |-> 1, end |-> 2]}

Limits ==
    {[has_limit |-> FALSE, limit |-> 0]}
        \cup {[has_limit |-> TRUE, limit |-> n] : n \in 1..MaxLimit}

\* the requests: /scrape (front "api") in the browser, use_api and
\* local_html modes, and the CLI command, which only drives a browser
\* what a use_api request carries of the credentials and identifiers of
\* its source: "all" of them; for g2 no g2_token, or no g2_product_uuid and
\* no product_url holding one; for capterra neither capterra_product_id
\* nor product_url ("none"), a product_url with the id in its path, or a
\* product_url without it; for trustradius no tr_apify_token or no
\* product_url
Given(source) ==
    CASE source = "g2" -> {"all", "no_token", "no_uuid"}
      [] source = "capterra" -> {"all", "none", "url_with_id", "url_only"}
      [] OTHER -> {"all", "no_token", "no_url"}

Modes ==
    {[front |-> "api", mode |-> "browser", source |-> s, given |-> "all"] :
        s \in {"g2", "capterra", "trustradius", "base"}}
    \cup UNION {{[front |-> "api", mode |-> "use_api", source |-> s, given |-> g] :
                    g \in Given(s)} : s \in {"g2", "capterra", "trustradius"}}
    \cup {[front |-> "api", mode |-> "local_html", source |-> "g2", given |-> "all"]}
    \cup {[front |-> "cli", mode |-> "browser", source |-> s, given |-> "all"] :
        s \in {"g2", "capterra", "trustradius", "base"}}

Requests ==
    {[front |-> m.front, mode |-> m.mode, source |-> m.source, given |-> m.given,
      has_limit |-> l.has_limit, limit |-> l.limit,
      start |-> w.start, end |-> w.end] :
        m \in Modes, l \in Limits, w \in Windows}

\* a URL as far as find_product_page looks at it: whether it ends with a
\* slash and whether its path has a reviews segment; None is no URL
None == [k |-> "none", slash |-> FALSE, reviews |-> FALSE]
Url(slash, has_reviews) == [k |-> "url", slash |-> slash, reviews |-> has_reviews]
ProductUrls == {Url(sl, rv) : sl \in BOOLEAN, rv \in BOOLEAN}

\* find_product_page when self.product_url is set: G2 and TrustRadius
\* return product_url.rstrip('/'); Capterra returns the URL as it stands
\* when it has a reviews segment and url.rstrip("/") + "/reviews" otherwise
find_product_page(source, product_url) ==
    IF source = "capterra"
    THEN IF product_url.reviews THEN product_url ELSE Url(FALSE, TRUE)
    ELSE Url(FALSE, product_url.reviews)

\* the reviews URL that discovery by slug or search resolves
DiscoveredUrl == Url(FALSE, TRUE)

(***************************************************************************)
(* Discovery: find_product_page without a product_url.  The site decides   *)
(* what each page discovery lands on: the navigation fails, the page       *)
(* carries a block marker (with or without the links and review elements   *)
(* discovery looks for), the page is as expected, or it has neither a      *)
(* marker nor what is looked for (not found, no results, redirected).      *)
(* site[i] is the page the i-th landing of one discovery gets.             *)
(***************************************************************************)
Kinds == {"fail", "blocked", "blocked_links", "ok", "not_found"}
Marker(k) == k \in {"blocked", "blocked_links"}
Content(k) == k \in {"ok", "blocked_links"}

\* the landings of the longest discovery of each source, in order
G2Landings == <<"direct", "home", "product", "reviews", "direct", "search">>
CapterraLandings == <<"search_com", "product_com", "search_in", "product_in">>
TrustRadiusLandings == <<"direct", "search">>

Sites(source) ==
    CASE source = "g2" -> [DOMAIN G2Landings -> Kinds]
      [] source = "capterra" -> [DOMAIN CapterraLandings -> Kinds]
      [] source = "trustradius" -> [DOMAIN TrustRadiusLandings -> Kinds]
      [] OTHER -> {<<>>}

\* what a strategy leaves: the URL it returns (None: go on with the next
\* strategy), the URLs landed on so far, and whether the page the URL was
\* resolved on carried a block marker
Found(visits, marker) == [url |-> DiscoveredUrl, visits |-> visits, marker |-> marker]
GoOn(visits) == [url |-> None, visits |-> visits, marker |-> FALSE]

\* G2 attempts "direct_fast" and "direct_retry": goto(direct); an exception
\* or _is_blocked: continue; "/reviews" in page.url: return
G2Direct(site, visits) ==
    LET v == Append(visits, "direct") IN
    IF site[Len(v)] = "ok" THEN Found(v, FALSE) ELSE GoOn(v)

\* G2 _user_flow_search_to_reviews: the home page, a click on the first
\* result found, _is_blocked, the reviews link of the product page or
\* goto(direct) when the URL is no reviews URL, _is_blocked again
G2HumanPath(site, visits) ==
    LET v1 == Append(visits, "home")
        v2 == Append(v1, "product")
        k2 == site[Len(v2)]
        v3 == Append(v2, IF k2 = "ok" THEN "reviews" ELSE "direct")
    IN IF ~Content(site[Len(v1)]) THEN GoOn(v1)
       ELSE IF Marker(k2) THEN GoOn(v2)
       ELSE IF site[Len(v3)] = "ok" THEN Found(v3, FALSE)
       ELSE GoOn(v3)

\* G2 "Fallback: search manual": goto(search_url), then the first link a
\* selector finds; the page is not looked at for block markers
G2Search(site, visits) ==
    LET v == Append(visits, "search")
        k == site[Len(v)]
    IN IF Content(k) THEN Found(v, Marker(k)) ELSE GoOn(v)

G2Discover(site) ==
    LET a == G2Direct(site, <<>>)
        b == IF a.url # None THEN a ELSE G2HumanPath(site, a.visits)
        c == IF b.url # None THEN b ELSE G2Direct(site, b.visits)
    IN IF c.url # None THEN c ELSE G2Search(site, c.visits)

\* Capterra, one base of "for base in [BASE_SEARCH_COM, BASE_SEARCH_IN]":
\* goto(search_url); block keywords in the body: continue; no anchor:
\* continue; a click on the chosen anchor when the page has it (site kind
\* "fail": it has not, the page stays); block keywords on the page landed
\* on: continue; else the normalized URL
CapterraSearch(site, visits, base) ==
    LET v1 == Append(visits, base)
        k1 == site[Len(v1)]
        v2 == Append(v1, IF base = "search_com" THEN "product_com" ELSE "product_in")
        k2 == site[Len(v2)]
    IN IF k1 # "ok" THEN GoOn(v1)
       ELSE IF k2 = "fail" THEN Found(v1, FALSE)
       ELSE IF Marker(k2) THEN GoOn(v2)
       ELSE Found(v2, FALSE)

CapterraDiscover(site) ==
    LET a == CapterraSearch(site, <<>>, "search_com") IN
    IF a.url # None THEN a ELSE CapterraSearch(site, a.visits, "search_in")

\* TrustRadius "1. Direct slug attempt": goto(direct); review elements
\* within the wait: return direct; else return direct unless the page
\* says "not found" or "error"
TrustRadiusDirect(site, visits) ==
    LET v == Append(visits, "direct")
        k == site[Len(v)]
    IN IF k \in {"fail", "not_found"} THEN GoOn(v) ELSE Found(v, Marker(k))

\* TrustRadius "2. Search fallback": the first a[href*='/products/']
TrustRadiusSearch(site, visits) ==
    LET v == Append(visits, "search")
        k == site[Len(v)]
    IN IF Content(k) THEN Found(v, Marker(k)) ELSE GoOn(v)

TrustRadiusDiscover(site) ==
    LET a == TrustRadiusDirect(site, <<>>) IN
    IF a.url # None THEN a ELSE TrustRadiusSearch(site, a.visits)

Discover(source, site) ==
    CASE source = "g2" -> G2Discover(site)
      [] source = "capterra" -> CapterraDiscover(site)
      [] OTHER -> TrustRadiusDiscover(site)

\* what scrape() holds after a discovery
Discovered(d) ==
    [given |-> None, url |-> d.url, visits |-> d.visits, marker |-> d.marker]

NoProductPage == [given |-> None, url |-> None, visits |-> <<>>, marker |-> FALSE]

\* the outcome of one selector of go_to_next_page: no element; click()
\* raises; clicked and the network went idle; clicked and
\* wait_for_load_state timed out
Outcomes == {"absent", "click_fails", "navigated", "wait_timeout"}

\* the selectors of AsyncBaseScraper.go_to_next_page and of
\* BaseScraper.go_to_next_page, in the order of the list
BaseSelectors ==
    <<"button:has-text(Load more)", "button:has-text(Load More)", "a[rel=next]",
      "button:has-text(Next)", "button:has-text(See more)">>

\* the selectors of TrustRadiusScraper.go_to_next_page
TrustRadiusSelectors ==
    <<"a[rel=next]", "button:has-text(Next)", "a:has-text(Next)",
      "button:has-text(Load more)">>

\* the selectors one call of go_to_next_page runs through: the override
\* of TrustRadiusScraper ends in super().go_to_next_page(page)
Selectors(source) ==
    IF source = "trustradius" THEN TrustRadiusSelectors \o BaseSelectors
    ELSE BaseSelectors

\* a "Load more" / "See more" button adds reviews to the page it is on;
\* a next link or button loads another page
LoadsMore(source, i) ==
    Selectors(source)[i] \in {"button:has-text(Load more)",
                              "button:has-text(Load More)",
                              "button:has-text(See more)"}

\* the wait that follows the click has a try of its own (the override of
\* TrustRadiusScraper only)
Guarded(source, i) == source = "trustradius" /\ i <= Len(TrustRadiusSelectors)

\* the selector returns True: clicked, and the wait went through or its
\* timeout was caught next to it
ReturnsTrue(source, i, o) ==
    o = "navigated" \/ (o = "wait_timeout" /\ Guarded(source, i))

NoExc == [type |-> "", msg |-> "", cause |-> ""]
Exc(t, m) == [type |-> t, msg |-> m, cause |-> ""]

NoResponse ==
    [status |-> 0, detail |-> "", reviews |-> <<>>,
     reviews_found |-> 0, raw_reviews_count |-> 0, invalid_reviews |-> 0]

VARIABLES
    req,          \* the request: ScrapeRequest / the CLI options
    pc,           \* the place the invocation has reached
    browser,      \* "none", "open" or "closed"
    context,      \* "none", "open" or "closed"
    served,       \* history: the elements / items handed to the invocation
    page_num,     \* scrape(): page_num
    reviews,      \* scrape(): reviews, the list extracted from this page
    all_reviews,  \* scrape(): all_reviews
    api_page,     \* fetch functions: page
    polls,        \* fetch_trustradius_via_apify: dataset polls issued
    collected,    \* fetch functions: collected
    exc,          \* the exception propagating, NoExc when none
    raw_reviews,  \* /scrape and CLI: the list being filtered and validated
    response,     \* what the caller receives (status 0: nothing yet)
    written,      \* the result files the CLI has written
    product_page, \* scrape(): what find_product_page was given and returned
    sel,          \* go_to_next_page: the selector the for loop is at, 0
                  \* outside a call
    clicks,       \* go_to_next_page: clicks performed by the call that is
                  \* running or has just returned, 0 otherwise
    calls,        \* history: the functions invoked so far, in order
    http,         \* history: HTTP requests issued through requests
    dom,          \* the review elements of the page the browser is on
    arrived,      \* history: review elements the site has put on its pages
    status        \* fetch functions: the status of the last response, ""
                  \* before the first: "ok", "unauthorized" (401), "error"
                  \* (another status >= 400; for a poll, any but 200)

vars == <<req, pc, browser, context, served, page_num, reviews, all_reviews,
          api_page, polls, collected, exc, raw_reviews, response, written,
          product_page, sel, clicks, calls, http, dom, arrived, status>>

Init ==
    /\ req \in Requests
    /\ pc = "start"
    /\ browser = "none"
    /\ context = "none"
    /\ served = <<>>
    /\ page_num = 0
    /\ reviews = <<>>
    /\ all_reviews = <<>>
    /\ api_page = 0
    /\ polls = 0
    /\ collected = <<>>
    /\ exc = NoExc
    /\ raw_reviews = <<>>
    /\ response = NoResponse
    /\ written = <<>>
    /\ product_page = NoProductPage
    /\ sel = 0
    /\ clicks = 0
    /\ calls = <<>>
    /\ http = 0
    /\ dom = <<>>
    /\ arrived = 0
    /\ status = ""

(***************************************************************************)
(* scrape() of AsyncBaseScraper (source g2, capterra, trustradius) and of  *)
(* BaseScraper (source base).                                              *)
(***************************************************************************)
scrapeVars == <<browser, context, served, page_num, reviews, all_reviews>>
fetchVars == <<api_page, polls, collected, status>>
callerVars == <<raw_reviews, response, written>>
historyVars == <<calls, http>>
navVars == <<product_page, sel, clicks>>
domVars == <<dom, arrived>>

\* p.chromium.launch: the async driver turns NotImplementedError into a
\* RuntimeError; either way the exception leaves the with block
Launch ==
    /\ pc = "launch"
    /\ \/ /\ browser' = "open"
          /\ pc' = "new_context"
          /\ exc' = exc
       \/ /\ browser' = browser
          /\ pc' = "with_exit"
          /\ exc' = IF req.source = "base"
                    THEN Exc("NotImplementedError", "")
                    ELSE [type |-> "RuntimeError",
                          msg |-> "Playwright subprocess creation not supported",
                          cause |-> "NotImplementedError"]
    /\ UNCHANGED <<req, domVars, navVars, historyVars, context, served, page_num, reviews, all_reviews,
                   fetchVars, callerVars>>

\* browser.new_context(...), before the try
NewContext ==
    /\ pc = "new_context"
    /\ \/ /\ context' = "open"
          /\ pc' = "new_page"
          /\ exc' = exc
       \/ /\ context' = context
          /\ pc' = "with_exit"
          /\ exc' = Exc("Error", "new_context")
    /\ UNCHANGED <<req, domVars, navVars, historyVars, browser, served, page_num, reviews, all_reviews,
                   fetchVars, callerVars>>

\* context.new_page(), before the try
NewPage ==
    /\ pc = "new_page"
    /\ \/ /\ pc' = "find"
          /\ exc' = exc
       \/ /\ pc' = "with_exit"
          /\ exc' = Exc("Error", "new_page")
    /\ UNCHANGED <<req, domVars, navVars, historyVars, scrapeVars, fetchVars, callerVars>>

\* a scrape() that runs discovery a second time when the first resolved
\* no URL
FindProductPageTwice ==
    /\ pc = "find"
    /\ calls' = Append(calls, "find_product_page")
    /\ \/ /\ req.source # "base"
          /\ \E u \in ProductUrls :
                product_page' = [given |-> u,
                                 url |-> find_product_page(req.source, u),
                                 visits |-> <<>>, marker |-> FALSE]
          /\ pc' = "goto"
          /\ exc' = exc
       \/ /\ req.source \in {"capterra", "base"}
          /\ product_page' = Discovered(Found(<<>>, FALSE))
          /\ pc' = "goto"
          /\ exc' = exc
       \/ /\ req.source # "base"
          /\ \E site \in Sites(req.source) :
                /\ Discover(req.source, site).url # None
                /\ product_page' = Discovered(Discover(req.source, site))
          /\ pc' = "goto"
          /\ exc' = exc
       \/ /\ IF req.source = "base"
             THEN product_page' = Discovered(GoOn(<<>>))
             ELSE \E site \in Sites(req.source) :
                     /\ Discover(req.source, site).url = None
                     /\ product_page' = Discovered(Discover(req.source, site))
          /\ IF calls = <<"scrape">>
             THEN pc' = "find" /\ exc' = exc
             ELSE /\ pc' = "finally"
                  /\ exc' = Exc("RuntimeError", "Product page not found")
    /\ UNCHANGED <<req, domVars, sel, clicks, http, scrapeVars, fetchVars, callerVars>>

\* product_page = find_product_page(page); None raises RuntimeError.
\* With self.product_url set the three scrapers derive the URL from it;
\* Capterra builds the URL from an id in the company name, and the hook of
\* a BaseScraper subclass returns a URL or None; otherwise discovery runs
\* its strategies in order on what the site shows.
FindProductPage ==
    /\ pc = "find"
    /\ calls' = Append(calls, "find_product_page")
    /\ \/ /\ req.source # "base"
          /\ \E u \in ProductUrls :
                product_page' = [given |-> u,
                                 url |-> find_product_page(req.source, u),
                                 visits |-> <<>>, marker |-> FALSE]
          /\ pc' = "goto"
          /\ exc' = exc
       \/ /\ req.source \in {"capterra", "base"}
          /\ product_page' = Discovered(Found(<<>>, FALSE))
          /\ pc' = "goto"
          /\ exc' = exc
       \/ /\ req.source # "base"
          /\ \E site \in Sites(req.source) :
                /\ Discover(req.source, site).url # None
                /\ product_page' = Discovered(Discover(req.source, site))
          /\ pc' = "goto"
          /\ exc' = exc
       \/ /\ IF req.source = "base"
             THEN product_page' = Discovered(GoOn(<<>>))
             ELSE \E site \in Sites(req.source) :
                     /\ Discover(req.source, site).url = None
                     /\ product_page' = Discovered(Discover(req.source, site))
          /\ pc' = "finally"
          /\ exc' = Exc("RuntimeError", "Product page not found")
    /\ UNCHANGED <<req, domVars, sel, clicks, http, scrapeVars, fetchVars, callerVars>>

\* page.goto(product_page, wait_until="load"), which nothing guards: its
\* timeout leaves the try.  accept_cookies and the wait for a review
\* selector have a try of their own: after a timeout of theirs scrape()
\* goes on.  Then all_reviews = [], page_num = 0.
Goto ==
    /\ pc = "goto"
    /\ \/ /\ pc' = "extract"
          /\ exc' = exc
       \/ /\ pc' = "finally"
          /\ exc' = Exc("TimeoutError", "page.goto")
    /\ all_reviews' = <<>>
    /\ page_num' = 0
    /\ product_page' = NoProductPage
    /\ dom' = <<>>
    /\ UNCHANGED <<req, arrived, sel, clicks, historyVars, browser, context, served, reviews, fetchVars, callerVars>>

\* page_num += 1; reviews = extract_reviews_from_page(page);
\* if not reviews: break.  The extractor reads every review element the
\* page holds: those a "Load more" click left on it and those the site
\* has added since.
ExtractReviews ==
    /\ pc = "extract"
    /\ calls' = Append(calls, "extract_reviews_from_page")
    /\ page_num' = page_num + 1
    /\ \/ \E els \in SeqsUpTo(PageElements(req.source),
                             Min(MaxRecs - arrived,
                                 MaxReads - Len(served) - Len(dom))) :
             /\ dom' = dom \o els
             /\ arrived' = arrived + Len(els)
             /\ reviews' = extract_reviews_from_page(req.source, dom')
             /\ served' = served \o dom'
             /\ pc' = IF dom' = <<>> THEN "finally" ELSE "filter"
             /\ exc' = exc
       \/ /\ pc' = "finally"
          /\ exc' = Exc("Error", "extract")
          /\ UNCHANGED <<reviews, served, dom, arrived>>
    /\ UNCHANGED <<req, navVars, http, browser, context, all_reviews, fetchVars, callerVars>>

\* the per-page date filter, then all_reviews.extend(kept)
FilterPage ==
    /\ pc = "filter"
    /\ LET f == FilterLoop(req.source, reviews, 1, <<>>, req.start, req.end) IN
       /\ all_reviews' = all_reviews \o f.kept
       /\ reviews' = f.reviews
    /\ pc' = "decide"
    /\ UNCHANGED <<req, domVars, navVars, historyVars, browser, context, served, page_num, exc,
                   fetchVars, callerVars>>

\* a loop that goes on to go_to_next_page whatever should_stop_paging
\* answers
DecideAlwaysAdvancing ==
    /\ pc = "decide"
    /\ calls' = Append(calls, "should_stop_paging")
    /\ IF StopRaises(reviews)
       THEN /\ pc' = "finally"
            /\ exc' = Exc("TypeError", "should_stop_paging")
       ELSE /\ pc' = "advance"
            /\ exc' = exc
    /\ UNCHANGED <<req, domVars, navVars, http, scrapeVars, fetchVars, callerVars>>

\* if should_stop_paging(page, reviews): break
Decide ==
    /\ pc = "decide"
    /\ calls' = Append(calls, "should_stop_paging")
    /\ IF StopRaises(reviews)
       THEN /\ pc' = "finally"
            /\ exc' = Exc("TypeError", "should_stop_paging")
       ELSE /\ pc' = IF ShouldStop(req.source, reviews, req.start, req.end)
                     THEN "finally" ELSE "advance"
            /\ exc' = exc
    /\ UNCHANGED <<req, domVars, navVars, http, scrapeVars, fetchVars, callerVars>>

\* next_found = go_to_next_page(page): the call, at its first selector
GoToNextPage ==
    /\ pc = "advance"
    /\ calls' = Append(calls, "go_to_next_page")
    /\ sel' = 1
    /\ clicks' = 0
    /\ pc' = "click"
    /\ UNCHANGED <<req, domVars, product_page, http, scrapeVars, fetchVars, exc, callerVars>>

\* one pass of "for sel in selectors": try: el = query_selector(sel);
\* if el: click, wait_for_load_state("networkidle"), return True;
\* except Exception: continue.  After the last selector return False, and
\* scrape() breaks.  The site has a target that leads on at most on its
\* first MaxPages - 1 pages, and a "Load more" button only while the page
\* can be read again within MaxReads.
ClickTarget ==
    /\ pc = "click"
    /\ \E o \in Outcomes :
          /\ ReturnsTrue(req.source, sel, o) =>
                /\ page_num < MaxPages
                /\ LoadsMore(req.source, sel) =>
                      Len(served) + Len(dom) <= MaxReads
          /\ clicks' = IF o \in {"navigated", "wait_timeout"}
                        THEN clicks + 1 ELSE clicks
          /\ IF ReturnsTrue(req.source, sel, o)
             THEN /\ pc' = "sleep" /\ sel' = 0
                  /\ dom' = IF LoadsMore(req.source, sel) THEN dom ELSE <<>>
             ELSE IF sel < Len(Selectors(req.source))
             THEN pc' = "click" /\ sel' = sel + 1 /\ dom' = dom
             ELSE pc' = "finally" /\ sel' = 0 /\ dom' = dom
    /\ UNCHANGED <<req, arrived, product_page, historyVars, scrapeVars, fetchVars, exc,
                   callerVars>>

\* the politeness sleep(1.0) that ends a loop iteration
Politeness ==
    /\ pc = "sleep"
    /\ calls' = Append(calls, "sleep")
    /\ clicks' = 0
    /\ pc' = "extract"
    /\ UNCHANGED <<req, domVars, product_page, sel, http, scrapeVars, fetchVars, exc,
                   callerVars>>

\* a finally block that closes the context and leaves the browser
FinallyContextOnly ==
    /\ pc = "finally"
    /\ context' = "closed"
    /\ browser' = browser
    /\ clicks' = 0
    /\ dom' = <<>>
    /\ pc' = "with_exit"
    /\ UNCHANGED <<req, arrived, product_page, sel, historyVars, served, page_num, reviews, all_reviews, fetchVars,
                   exc, callerVars>>

\* finally: context.close(); browser.close()
Finally ==
    /\ pc = "finally"
    /\ context' = "closed"
    /\ browser' = "closed"
    /\ clicks' = 0
    /\ dom' = <<>>
    /\ pc' = "with_exit"
    /\ UNCHANGED <<req, arrived, product_page, sel, historyVars, served, page_num, reviews, all_reviews, fetchVars,
                   exc, callerVars>>

\* what leaves scrape(): the async driver re-raises a RuntimeError and
\* wraps anything else; BaseScraper lets the exception through
Propagated(source, e) ==
    IF e = NoExc \/ source = "base" \/ e.type = "RuntimeError" THEN e
    ELSE [type |-> "RuntimeError", msg |-> "Unexpected scraper failure",
          cause |-> e.type]

\* leaving "with async_playwright() as p": Playwright stops its driver,
\* which ends the browser it launched and every context of it
PlaywrightExit ==
    /\ pc = "with_exit"
    /\ browser' = IF browser = "open" THEN "closed" ELSE browser
    /\ context' = IF context = "open" THEN "closed" ELSE context
    /\ exc' = Propagated(req.source, exc)
    /\ pc' = "returned"
    /\ UNCHANGED <<req, domVars, navVars, historyVars, served, page_num, reviews, all_reviews, fetchVars,
                   callerVars>>

(***************************************************************************)
(* The acquisition functions of use_api mode.  An exception leaves the     *)
(* function at once; a return value is bound to raw_reviews by /scrape.    *)
(***************************************************************************)
\* a fetch loop that asks for the page it has just read once more
G2ApiRequestSamePage ==
    /\ pc = "g2_api"
    /\ http' = http + 1
    /\ \/ /\ exc' = Exc("RuntimeError", "G2 API unauthorized")
          /\ status' = "unauthorized"
          /\ pc' = "returned"
          /\ UNCHANGED <<served, api_page, collected, raw_reviews>>
       \/ /\ exc' = Exc("RuntimeError", "G2 API error")
          /\ status' = "error"
          /\ pc' = "returned"
          /\ UNCHANGED <<served, api_page, collected, raw_reviews>>
       \/ \E items \in SeqsUpTo(JsonItems, Min(per_page, MaxRecs - Len(served))) :
             LET l == G2ItemsLoop(req, items, 1, collected) IN
             /\ status' = "ok"
             /\ served' = served \o items
             /\ collected' = l.collected
             /\ IF items # <<>> /\ l.end = "raise"
                THEN /\ exc' = Exc("ValueError", "float")
                     /\ pc' = "returned"
                     /\ UNCHANGED <<api_page, raw_reviews>>
                ELSE IF items = <<>> \/ l.end = "return" \/ Len(items) < per_page
                THEN /\ raw_reviews' = l.collected
                     /\ pc' = "in_range"
                     /\ UNCHANGED <<api_page, exc>>
                ELSE /\ api_page' = api_page
                     /\ pc' = "g2_api"
                     /\ UNCHANGED <<raw_reviews, exc>>
    /\ UNCHANGED <<req, domVars, navVars, calls, browser, context, page_num, reviews, all_reviews,
                   polls, response, written>>

\* one pass of "while True" of fetch_g2_reviews_api: the GET, the status
\* checks, the items loop and the pagination end condition
G2ApiRequest ==
    /\ pc = "g2_api"
    /\ http' = http + 1
    /\ \/ /\ exc' = Exc("RuntimeError", "G2 API unauthorized")
          /\ status' = "unauthorized"
          /\ pc' = "returned"
          /\ UNCHANGED <<served, api_page, collected, raw_reviews>>
       \/ /\ exc' = Exc("RuntimeError", "G2 API error")
          /\ status' = "error"
          /\ pc' = "returned"
          /\ UNCHANGED <<served, api_page, collected, raw_reviews>>
       \/ \E items \in SeqsUpTo(JsonItems, Min(per_page, MaxRecs - Len(served))) :
             LET l == G2ItemsLoop(req, items, 1, collected) IN
             /\ status' = "ok"
             /\ served' = served \o items
             /\ collected' = l.collected
             /\ IF items # <<>> /\ l.end = "raise"
                THEN /\ exc' = Exc("ValueError", "float")
                     /\ pc' = "returned"
                     /\ UNCHANGED <<api_page, raw_reviews>>
                ELSE IF items = <<>> \/ l.end = "return" \/ Len(items) < per_page
                THEN /\ raw_reviews' = l.collected
                     /\ pc' = "in_range"
                     /\ UNCHANGED <<api_page, exc>>
                ELSE /\ api_page' = api_page + 1
                     /\ pc' = "g2_api"
                     /\ UNCHANGED <<raw_reviews, exc>>
    /\ UNCHANGED <<req, domVars, navVars, calls, browser, context, page_num, reviews, all_reviews,
                   polls, response, written>>

\* one pass of "while True" of fetch_capterra_reviews_api
CapterraApiRequest ==
    /\ pc = "capterra_api"
    /\ http' = http + 1
    /\ \/ /\ exc' = Exc("RuntimeError", "Capterra API error")
          /\ status' = "error"
          /\ pc' = "returned"
          /\ UNCHANGED <<served, api_page, collected, raw_reviews>>
       \/ \E items \in SeqsUpTo(JsonItems, Min(per_page, MaxRecs - Len(served))) :
             LET l == CapterraItemsLoop(req, items, 1, collected) IN
             /\ status' = "ok"
             /\ served' = served \o items
             /\ collected' = l.collected
             /\ IF items # <<>> /\ l.end = "raise"
                THEN /\ exc' = Exc("ValueError", "float")
                     /\ pc' = "returned"
                     /\ UNCHANGED <<api_page, raw_reviews>>
                ELSE IF items = <<>> \/ l.end = "return" \/ Len(items) < per_page
                THEN /\ raw_reviews' = l.collected
                     /\ pc' = "in_range"
                     /\ UNCHANGED <<api_page, exc>>
                ELSE /\ api_page' = api_page + 1
                     /\ pc' = "capterra_api"
                     /\ UNCHANGED <<raw_reviews, exc>>
    /\ UNCHANGED <<req, domVars, navVars, calls, browser, context, page_num, reviews, all_reviews,
                   polls, response, written>>

\* fetch_trustradius_via_apify: the POST that starts the actor run
ApifyRun ==
    /\ pc = "apify_run"
    /\ http' = http + 1
    /\ \/ /\ exc' = Exc("RuntimeError", "Apify run start failed")
          /\ status' = "error"
          /\ pc' = "returned"
       \/ /\ exc' = Exc("RuntimeError", "Apify run didn't return dataset info")
          /\ status' = "ok"
          /\ pc' = "returned"
       \/ /\ exc' = exc
          /\ status' = "ok"
          /\ pc' = "apify_poll"
    /\ UNCHANGED <<req, domVars, navVars, calls, scrapeVars, api_page, polls, collected,
                   callerVars>>

\* a polling loop that a populated dataset does not end
ApifyPollGoingOn ==
    /\ pc = "apify_poll"
    /\ http' = http + 1
    /\ polls < PollBudget
    /\ polls' = polls + 1
    /\ \/ \E items \in SeqsUpTo(JsonItems, MaxRecs) \ {<<>>} :
             LET l == ApifyItemsLoop(req, items, 1, <<>>) IN
             /\ status' = "ok"
             /\ served' = items
             /\ collected' = l.collected
             /\ raw_reviews' = l.collected
             /\ pc' = IF polls' < PollBudget THEN "apify_poll" ELSE "in_range"
       \/ /\ pc' = "apify_poll"
          /\ status' \in {"ok", "error"}
          /\ UNCHANGED <<served, collected, raw_reviews>>
    /\ UNCHANGED <<req, domVars, navVars, calls, browser, context, page_num, reviews, all_reviews,
                   api_page, exc, response, written>>

\* one pass of "for _ in range(30)": a populated dataset ends the polling
\* and its items are mapped; otherwise (a status other than 200, no JSON,
\* no list or an empty one) sleep and poll again
ApifyPoll ==
    /\ pc = "apify_poll"
    /\ http' = http + 1
    /\ polls < PollBudget
    /\ polls' = polls + 1
    /\ \/ \E items \in SeqsUpTo(JsonItems, MaxRecs) \ {<<>>} :
             LET l == ApifyItemsLoop(req, items, 1, <<>>) IN
             /\ status' = "ok"
             /\ served' = items
             /\ collected' = l.collected
             /\ raw_reviews' = l.collected
             /\ pc' = "in_range"
       \/ /\ pc' = "apify_poll"
          /\ status' \in {"ok", "error"}
          /\ UNCHANGED <<served, collected, raw_reviews>>
    /\ UNCHANGED <<req, domVars, navVars, calls, browser, context, page_num, reviews, all_reviews,
                   api_page, exc, response, written>>

\* the for loop's else: no poll was populated, items = []
ApifyExhausted ==
    /\ pc = "apify_poll"
    /\ polls = PollBudget
    /\ raw_reviews' = <<>>
    /\ pc' = "in_range"
    /\ UNCHANGED <<req, domVars, navVars, historyVars, scrapeVars, fetchVars, exc, response, written>>

(***************************************************************************)
(* POST /scrape.                                                           *)
(***************************************************************************)
\* the local_html branch: a missing file is a 400, else the snapshot's
\* JSON-LD Review nodes are parsed
ApiLocalHtml ==
    /\ pc = "start"
    /\ req.front = "api"
    /\ req.mode = "local_html"
    /\ \/ /\ response' = [NoResponse EXCEPT !.status = 400,
                                              !.detail = "local_html not found"]
          /\ pc' = "done"
          /\ UNCHANGED <<served, raw_reviews>>
       \/ \E nodes \in SeqsUpTo(JsonItems, MaxRecs) :
             /\ served' = nodes
             /\ raw_reviews' = parse_g2_reviews_from_html(nodes)
             /\ pc' = "in_range"
             /\ UNCHANGED response
    /\ UNCHANGED <<req, domVars, navVars, historyVars, browser, context, page_num, reviews, all_reviews,
                   fetchVars, exc, written>>

\* the HTTPException(status_code=400) that the use_api branch raises for
\* the request, "" when the request carries what its source needs
Missing(r) ==
    CASE r.source = "g2" /\ r.given = "no_token" -> "Missing g2_token for API mode"
      [] r.source = "g2" /\ r.given = "no_uuid" ->
            "Missing g2_product_uuid for API mode"
      [] r.source = "capterra" /\ r.given = "none" ->
            "Missing capterra_product_id or resolvable product_url for API mode"
      [] r.source = "trustradius" /\ r.given = "no_token" ->
            "Missing tr_apify_token for API mode"
      [] r.source = "trustradius" /\ r.given = "no_url" ->
            "Missing product_url for TrustRadius API mode"
      [] OTHER -> ""

\* the fetch function of a source and the place where it begins
FetchFunction(source) ==
    CASE source = "g2" -> [name |-> "fetch_g2_reviews_api", pc |-> "g2_api"]
      [] source = "capterra" ->
            [name |-> "fetch_capterra_reviews_api", pc |-> "capterra_api"]
      [] OTHER -> [name |-> "fetch_trustradius_via_apify", pc |-> "apify_run"]

\* the use_api branch, inside the try of /scrape: the checks of the
\* request, then the call of the fetch function of the source; for
\* capterra without a product id, discover_capterra_product_id is called
\* on the product_url first
ApiUseApi ==
    /\ pc = "start"
    /\ req.front = "api"
    /\ req.mode = "use_api"
    /\ IF Missing(req) # ""
       THEN /\ exc' = Exc("HTTPException", Missing(req))
            /\ pc' = "returned"
            /\ UNCHANGED <<api_page, calls>>
       ELSE IF req.source = "capterra" /\ req.given # "all"
       THEN /\ calls' = Append(calls, "discover_capterra_product_id")
            /\ pc' = "discover"
            /\ UNCHANGED <<api_page, exc>>
       ELSE /\ calls' = Append(calls, FetchFunction(req.source).name)
            /\ pc' = FetchFunction(req.source).pc
            /\ api_page' = 1
            /\ exc' = exc
    /\ UNCHANGED <<req, domVars, navVars, http, scrapeVars, polls, collected, status,
                   callerVars>>

\* discover_capterra_product_id: the id is read from the /p/<id>/ or
\* /reviews/<id>/ path of the URL; otherwise the page is fetched with
\* requests.get and searched for a productId.  No id leaves pid falsy and
\* /scrape raises its HTTPException(400).
DiscoverCapterraProductId ==
    /\ pc = "discover"
    /\ \/ /\ req.given = "url_with_id"
          /\ calls' = Append(calls, "fetch_capterra_reviews_api")
          /\ pc' = "capterra_api"
          /\ api_page' = 1
          /\ UNCHANGED <<http, exc, status>>
       \/ /\ req.given = "url_only"
          /\ http' = http + 1
          /\ \/ /\ exc' = Exc("RuntimeError", "Capterra product page fetch failed")
                /\ status' = "error"
                /\ pc' = "returned"
                /\ UNCHANGED <<calls, api_page>>
             \/ /\ calls' = Append(calls, "fetch_capterra_reviews_api")
                /\ status' = "ok"
                /\ pc' = "capterra_api"
                /\ api_page' = 1
                /\ exc' = exc
             \/ /\ exc' = Exc("HTTPException",
                    "Missing capterra_product_id or resolvable product_url for API mode")
                /\ status' = "ok"
                /\ pc' = "returned"
                /\ UNCHANGED <<calls, api_page>>
    /\ UNCHANGED <<req, domVars, navVars, scrapeVars, polls, collected, callerVars>>

\* the Playwright branch: scraper = Scraper(...); result = scraper.scrape()
ApiPlaywright ==
    /\ pc = "start"
    /\ req.front = "api"
    /\ req.mode = "browser"
    /\ calls' = Append(calls, "scrape")
    /\ pc' = "launch"
    /\ UNCHANGED <<req, domVars, navVars, http, scrapeVars, fetchVars, exc, callerVars>>

\* raw_reviews = await result
ApiAwaitScrape ==
    /\ pc = "returned"
    /\ req.front = "api"
    /\ exc = NoExc
    /\ raw_reviews' = all_reviews
    /\ pc' = "in_range"
    /\ UNCHANGED <<req, domVars, navVars, historyVars, scrapeVars, fetchVars, exc, response, written>>

\* an except clause that answers with what was accumulated so far
ApiExceptPartial ==
    /\ pc = "returned"
    /\ req.front = "api"
    /\ exc # NoExc
    /\ LET v == ValidateLoop(all_reviews \o collected, <<>>, 0) IN
       response' = [status |-> 200, detail |-> "",
                    reviews |-> v.review_models,
                    reviews_found |-> Len(v.review_models),
                    raw_reviews_count |-> Len(all_reviews \o collected),
                    invalid_reviews |-> v.invalid]
    /\ pc' = "done"
    /\ UNCHANGED <<req, domVars, navVars, historyVars, scrapeVars, fetchVars, exc, raw_reviews, written>>

\* except Exception as e: raise HTTPException(status_code=500, ...)
ApiExcept ==
    /\ pc = "returned"
    /\ req.front = "api"
    /\ exc # NoExc
    /\ response' = [NoResponse EXCEPT !.status = 500, !.detail = "Scrape failed"]
    /\ pc' = "done"
    /\ UNCHANGED <<req, domVars, navVars, historyVars, scrapeVars, fetchVars, exc, raw_reviews, written>>

\* raw_reviews = [r for r in raw_reviews if _in_range(r.get("date"))];
\* a TypeError of _in_range is caught by nothing and ends the request
ApiInRange ==
    /\ pc = "in_range"
    /\ IF \E i \in DOMAIN raw_reviews : InRangeRaises(raw_reviews[i].date)
       THEN /\ exc' = Exc("TypeError", "_in_range")
            /\ response' = [NoResponse EXCEPT !.status = 500,
                                               !.detail = "Internal Server Error"]
            /\ pc' = "done"
            /\ UNCHANGED raw_reviews
       ELSE /\ raw_reviews' = SelectInRange(raw_reviews, req.start, req.end)
            /\ pc' = "limit"
            /\ UNCHANGED <<exc, response>>
    /\ UNCHANGED <<req, domVars, navVars, historyVars, scrapeVars, fetchVars, written>>

\* if req.limit is not None: raw_reviews = raw_reviews[: req.limit]
ApiLimit ==
    /\ pc = "limit"
    /\ raw_reviews' = IF req.has_limit THEN Take(raw_reviews, req.limit)
                      ELSE raw_reviews
    /\ pc' = "validate"
    /\ UNCHANGED <<req, domVars, navVars, historyVars, scrapeVars, fetchVars, exc, response, written>>

\* the validation loop and the ScrapeResult with its meta counts
ApiValidate ==
    /\ pc = "validate"
    /\ LET v == ValidateLoop(raw_reviews, <<>>, 0) IN
       response' = [status |-> 200, detail |-> "",
                    reviews |-> v.review_models,
                    reviews_found |-> Len(v.review_models),
                    raw_reviews_count |-> Len(raw_reviews),
                    invalid_reviews |-> v.invalid]
    /\ pc' = "done"
    /\ UNCHANGED <<req, domVars, navVars, historyVars, scrapeVars, fetchVars, exc, raw_reviews, written>>

(***************************************************************************)
(* The CLI command scrape.                                                 *)
(***************************************************************************)
\* scraper = Scraper(...); maybe_coro = scraper.scrape()
CliScrape ==
    /\ pc = "start"
    /\ req.front = "cli"
    /\ calls' = Append(calls, "scrape")
    /\ pc' = "launch"
    /\ UNCHANGED <<req, domVars, navVars, http, scrapeVars, fetchVars, exc, callerVars>>

\* except Exception: echo the error and raise typer.Exit(code=2)
CliExcept ==
    /\ pc = "returned"
    /\ req.front = "cli"
    /\ exc # NoExc
    /\ response' = [NoResponse EXCEPT !.status = 2,
                                      !.detail = "Error during scraping"]
    /\ pc' = "done"
    /\ UNCHANGED <<req, domVars, navVars, historyVars, scrapeVars, fetchVars, exc, raw_reviews, written>>

\* reviews = reviews[:limit], the validation layer, write_result
CliWrite ==
    /\ pc = "returned"
    /\ req.front = "cli"
    /\ exc = NoExc
    /\ LET rs == IF req.has_limit THEN Take(all_reviews, req.limit)
                 ELSE all_reviews
           v == ValidateLoop(rs, <<>>, 0)
           result == [status |-> 0, detail |-> "Wrote",
                      reviews |-> v.review_models,
                      reviews_found |-> Len(v.review_models),
                      raw_reviews_count |-> Len(rs),
                      invalid_reviews |-> 0]
       IN /\ raw_reviews' = rs
          /\ written' = Append(written, result)
          /\ response' = result
    /\ pc' = "done"
    /\ UNCHANGED <<req, domVars, navVars, historyVars, scrapeVars, fetchVars, exc>>

Next ==
    \/ Launch \/ NewContext \/ NewPage \/ FindProductPage \/ Goto
    \/ ExtractReviews \/ FilterPage \/ Decide \/ GoToNextPage \/ ClickTarget
    \/ Politeness
    \/ Finally \/ PlaywrightExit
    \/ G2ApiRequest \/ CapterraApiRequest
    \/ ApifyRun \/ ApifyPoll \/ ApifyExhausted
    \/ ApiLocalHtml \/ ApiUseApi \/ DiscoverCapterraProductId \/ ApiPlaywright
    \/ ApiAwaitScrape \/ ApiExcept \/ ApiInRange \/ ApiLimit \/ ApiValidate
    \/ CliScrape \/ CliExcept \/ CliWrite

Spec == Init /\ [][Next]_vars

(***************************************************************************)
(* The pagination loop of scrape() on a site that has no last page.  The   *)
(* loop is entered after page.goto; the site may serve a page and a click  *)
(* target for ever.  The histories (served, calls, clicks) are not kept    *)
(* here, page_num is counted up to MaxPages and stays there, and pages     *)
(* hold one record, of which at most MaxRecs in all are kept.              *)
(***************************************************************************)
PagerInit ==
    /\ req \in {r \in Requests :
                  r.mode = "browser" /\ r.front = "cli" /\ ~r.has_limit}
    /\ pc = "extract"
    /\ browser = "open"
    /\ context = "open"
    /\ served = <<>>
    /\ page_num = 0
    /\ reviews = <<>>
    /\ all_reviews = <<>>
    /\ api_page = 0
    /\ polls = 0
    /\ collected = <<>>
    /\ exc = NoExc
    /\ raw_reviews = <<>>
    /\ response = NoResponse
    /\ written = <<>>
    /\ product_page = NoProductPage
    /\ sel = 0
    /\ clicks = 0
    /\ calls = <<"scrape", "find_product_page">>
    /\ http = 0
    /\ dom = <<>>
    /\ arrived = 0
    /\ status = ""

\* page_num += 1; reviews = extract_reviews_from_page(page);
\* if not reviews: break
PagerExtractReviews ==
    /\ pc = "extract"
    /\ page_num' = Min(page_num + 1, MaxPages)
    /\ \/ \E els \in SeqsUpTo(PageElements(req.source), 1) :
             LET rs == extract_reviews_from_page(req.source, els)
                 kept == FilterLoop(req.source, rs, 1, <<>>, req.start, req.end).kept
             IN /\ Len(all_reviews) + Len(kept) <= MaxRecs
                /\ reviews' = rs
                /\ pc' = IF els = <<>> THEN "finally" ELSE "filter"
                /\ exc' = exc
       \/ /\ pc' = "finally"
          /\ exc' = Exc("Error", "extract")
          /\ UNCHANGED reviews
    /\ UNCHANGED <<req, domVars, navVars, historyVars, browser, context, served,
                   all_reviews, fetchVars, callerVars>>

\* if should_stop_paging(page, reviews): break
PagerDecide ==
    /\ pc = "decide"
    /\ IF StopRaises(reviews)
       THEN /\ pc' = "finally"
            /\ exc' = Exc("TypeError", "should_stop_paging")
       ELSE /\ pc' = IF ShouldStop(req.source, reviews, req.start, req.end)
                     THEN "finally" ELSE "advance"
            /\ exc' = exc
    /\ UNCHANGED <<req, domVars, navVars, historyVars, scrapeVars, fetchVars, callerVars>>

\* next_found = go_to_next_page(page): the call, at its first selector
PagerGoToNextPage ==
    /\ pc = "advance"
    /\ sel' = 1
    /\ pc' = "click"
    /\ UNCHANGED <<req, domVars, product_page, clicks, historyVars, scrapeVars, fetchVars,
                   exc, callerVars>>

\* one pass of "for sel in selectors"; after the last selector return
\* False, and scrape() breaks
PagerClickTarget ==
    /\ pc = "click"
    /\ \E o \in Outcomes :
          IF ReturnsTrue(req.source, sel, o)
          THEN pc' = "sleep" /\ sel' = 0
          ELSE IF sel < Len(Selectors(req.source))
          THEN pc' = "click" /\ sel' = sel + 1
          ELSE pc' = "finally" /\ sel' = 0
    /\ UNCHANGED <<req, domVars, product_page, clicks, historyVars, scrapeVars, fetchVars,
                   exc, callerVars>>

\* the politeness sleep(1.0) that ends a loop iteration
PagerPoliteness ==
    /\ pc = "sleep"
    /\ pc' = "extract"
    /\ UNCHANGED <<req, domVars, navVars, historyVars, scrapeVars, fetchVars, exc,
                   callerVars>>

PagerNext ==
    \/ PagerExtractReviews \/ FilterPage \/ PagerDecide \/ PagerGoToNextPage
    \/ PagerClickTarget \/ PagerPoliteness \/ Finally \/ PlaywrightExit

\* the loop keeps running: scrape() is never suspended for ever
PagerSpec == PagerInit /\ [][PagerNext]_vars /\ WF_vars(PagerNext)

(***************************************************************************)
(* /scrape in use_api mode alone: the credential checks, the acquisition   *)
(* functions over requests, and the endpoint's filter, limit and           *)
(* validation.  A request in flight is answered and the endpoint runs on.  *)
(***************************************************************************)
ApiInit ==
    /\ Init
    /\ req.mode = "use_api"

ApiNext ==
    \/ ApiUseApi \/ DiscoverCapterraProductId
    \/ G2ApiRequest \/ CapterraApiRequest
    \/ ApifyRun \/ ApifyPoll \/ ApifyExhausted
    \/ ApiExcept \/ ApiInRange \/ ApiLimit \/ ApiValidate

ApiSpec == ApiInit /\ [][ApiNext]_vars /\ WF_vars(ApiNext)

(***************************************************************************)
(* extract_reviews_from_page on a page that holds schema.org Review nodes  *)
(* in JSON-LD scripts (ld) next to review elements (els).  An extractor    *)
(* yields its records and the methods it consulted, in order.              *)
(***************************************************************************)
\* the JSON-LD loop of TrustRadiusScraper.extract_reviews_from_page, one
\* node: the date parsed when it is a string, float(ratingValue) guarded
TrustRadiusJsonLdNode(node) ==
    Rec(ApiDate(node.date),
        IF node.rating.k = "num" THEN RFloat(node.rating.v) ELSE RNone,
        node)

\* G2Scraper: the candidate selectors first; the JSON-LD scripts are read
\* under "if not els" only
G2PageExtract(ld, els) ==
    IF els # <<>>
    THEN [reviews |-> extract_reviews_from_page("g2", els),
          consulted |-> <<"css">>]
    ELSE [reviews |-> parse_g2_reviews_from_html(ld),
          consulted |-> <<"css", "jsonld">>]

\* TrustRadiusScraper: "JSON-LD first", "if reviews: return reviews", then
\* the container selectors
TrustRadiusPageExtract(ld, els) ==
    IF ld # <<>>
    THEN [reviews |-> [i \in DOMAIN ld |-> TrustRadiusJsonLdNode(ld[i])],
          consulted |-> <<"jsonld">>]
    ELSE [reviews |-> extract_reviews_from_page("trustradius", els),
          consulted |-> <<"jsonld", "css">>]

\* CapterraScraper reads review cards only
CapterraPageExtract(ld, els) ==
    [reviews |-> extract_reviews_from_page("capterra", els),
     consulted |-> <<"css">>]

PageExtract(source, ld, els) ==
    CASE source = "g2" -> G2PageExtract(ld, els)
      [] source = "trustradius" -> TrustRadiusPageExtract(ld, els)
      [] OTHER -> CapterraPageExtract(ld, els)

\* scrape() about to extract the first page of one of the three sites
ExtractorInit ==
    /\ PagerInit
    /\ req.source # "base"

\* reviews = extract_reviews_from_page(page): served keeps the Review
\* nodes of the page, dom its review elements, calls the methods consulted
ExtractPage ==
    /\ pc = "extract"
    /\ page_num' = page_num + 1
    /\ \E ld \in SeqsUpTo(JsonItems, MaxRecs) :
          \E els \in SeqsUpTo(DomElements, MaxRecs - Len(ld)) :
             LET x == PageExtract(req.source, ld, els) IN
             /\ reviews' = x.reviews
             /\ calls' = calls \o x.consulted
             /\ served' = ld
             /\ dom' = els
             /\ arrived' = Len(ld) + Len(els)
             /\ pc' = IF x.reviews = <<>> THEN "finally" ELSE "filter"
    /\ UNCHANGED <<req, navVars, http, browser, context, all_reviews, fetchVars,
                   exc, callerVars>>

ExtractorNext == ExtractPage \/ FilterPage \/ Finally

ExtractorSpec == ExtractorInit /\ [][ExtractorNext]_vars

(***************************************************************************)
(* Properties.                                                             *)
(***************************************************************************)
SrcOf(recs) == [i \in DOMAIN recs |-> recs[i].src]

\* the record's date is a date or a string that parses to one
HasDate(r) == r.date.k \in {"text", "iso", "date"}

\* the date is inside the requested window, both ends included
InWindow(r) == HasDate(r) /\ req.start <= r.date.d /\ r.date.d <= req.end

\* what the date-window filter is to retain: dated records inside the
\* window, and every record without a date it can read
Retained(r) == HasDate(r) => InWindow(r)

Succeeded == pc = "done" /\ response.status \in {0, 200}

\* C2: limit after date filtering.  In every acquisition mode, when k of
\* the acquired raw records are in the window or undated and the request
\* has limit n, the result is built from exactly min(k, n) records.
C2_LimitAfterFilter ==
    (Succeeded /\ req.has_limit) =>
        response.raw_reviews_count =
            Min(Len(SelectSeq(served, Retained)), req.limit)

\* a rating as the site shows it, outside [0, 5]
ShownOutOfRange(x) ==
    \/ x.k = "num" /\ (x.v < 0 \/ x.v > 500)
    \/ x.k = "stars" /\ 100 * x.v > 500

RatingInRange(x) == x.k = "none" \/ (0 <= x.v /\ x.v <= 500)

\* C3: rating range.  Every Review of a result has rating null or within
\* [0, 5], and no Review carries a rating that was read from a rating
\* outside [0, 5]: such a rating is never clamped into the range.
C3_RatingRejectedNotClamped ==
    Succeeded =>
        \A i \in DOMAIN response.reviews :
            /\ RatingInRange(response.reviews[i].rating)
            /\ response.reviews[i].rating.k # "none" =>
                    ~ShownOutOfRange(response.reviews[i].src.rating)

\* C4: unparsable date.  A record whose date is present but unparsable
\* (and whose other fields are valid) is in the result with date null.
C4_UnparsableDateKept ==
    Succeeded =>
        \A i \in DOMAIN raw_reviews :
            (raw_reviews[i].date.k = "bad" /\ RatingInRange(raw_reviews[i].rating)) =>
                \E j \in DOMAIN response.reviews :
                    /\ response.reviews[j].src = raw_reviews[i].src
                    /\ response.reviews[j].date = DNone

\* a snapshot Review block of the end-to-end scenario: a date string, a
\* valid rating
ScenarioBlock(n) ==
    /\ n.date.k \in {"text", "iso", "bad"}
    /\ n.rating.k = "none" \/ (n.rating.k = "num" /\ n.rating.v <= 500)

InWindowOrUnparsable(n) == InWindow(n) \/ n.date.k = "bad"

\* C5: offline snapshot.  For a snapshot of N Review blocks, K of them in
\* the window or with an unparsable date, the response holds K reviews,
\* raw_reviews_count = N and reviews_found = K.
C5_SnapshotCounts ==
    (/\ Succeeded
     /\ req.mode = "local_html"
     /\ ~req.has_limit
     /\ \A i \in DOMAIN served : ScenarioBlock(served[i])) =>
        LET K == Len(SelectSeq(served, InWindowOrUnparsable)) IN
        /\ Len(response.reviews) = K
        /\ response.raw_reviews_count = Len(served)
        /\ response.reviews_found = K

\* a raw record that Review accepts: the date absent, a date or an ISO
\* string, the rating absent or within [0, 5]
PassesValidation(r) ==
    r.date.k \in {"none", "iso", "date"} /\ RatingInRange(r.rating)

\* C6: invalid records are counted.  In every result of /scrape the reviews
\* are the records that pass validation, in order; each failing record is
\* absent and counted once in invalid_reviews; and
\* reviews_found + invalid_reviews = raw_reviews_count.
C6_InvalidCounted ==
    (pc = "done" /\ req.front = "api" /\ response.status = 200) =>
        LET valid == SelectSeq(raw_reviews, PassesValidation) IN
        /\ SrcOf(response.reviews) = SrcOf(valid)
        /\ response.invalid_reviews = Len(raw_reviews) - Len(valid)
        /\ response.reviews_found = Len(response.reviews)
        /\ response.reviews_found + response.invalid_reviews =
               response.raw_reviews_count

\* a result with a rejected out-of-range rating followed by a valid record
C6_Witness ==
    /\ pc = "done" /\ req.front = "api" /\ response.status = 200
    /\ Len(raw_reviews) = 2
    /\ raw_reviews[1].rating.v = 700
    /\ response.invalid_reviews = 1 /\ response.reviews_found = 1

\* a page with at least one parsable date whose parsable dates are all
\* strictly older than start
AllOlder(recs) ==
    /\ \E i \in DOMAIN recs : HasDate(recs[i])
    /\ \A i \in DOMAIN recs : HasDate(recs[i]) => recs[i].date.d < req.start

\* C7: pagination early-stop (AsyncBaseScraper).  After a page with at
\* least one parsable date, all parsable dates older than start, has been
\* extracted and filtered, the controller neither advances nor extracts
\* again: the stop decision leads to the exit of the loop.
C7_EarlyStop ==
    (req.source # "base" /\ page_num >= 1 /\ AllOlder(reviews)) =>
        pc \notin {"advance", "click", "sleep", "extract"}

\* page 1 in the window, page 2 all older: stopped after page 2 although
\* the site had a further page
C7_Witness ==
    /\ req.source # "base" /\ pc = "finally" /\ exc = NoExc
    /\ page_num = 2 /\ page_num < MaxPages
    /\ AllOlder(reviews)
    /\ Len(all_reviews) = 1 /\ InWindow(all_reviews[1])

\* the try block of scrape() has been left: its finally has run
LeftTry ==
    /\ pc = "with_exit"
    /\ browser # "none"
    /\ exc.msg \notin {"new_context", "new_page"}

\* scrape() has been left altogether
LeftScrape ==
    req.mode = "browser" /\ pc \in {"returned", "in_range", "limit", "validate", "done"}

\* C8: browser and context released.  Once the browser has been launched,
\* every way out of the try block of scrape() (return, 'Product page not
\* found', an exception of a later step) has closed the context and the
\* browser, and after scrape() no browser or context is left open.
C8_BrowserClosed ==
    /\ LeftTry => (context = "closed" /\ browser = "closed")
    /\ LeftScrape => (context # "open" /\ browser # "open")

\* an extraction failure on page 2, after page 1 was accumulated
C8_Witness ==
    /\ LeftTry
    /\ exc = Exc("Error", "extract")
    /\ page_num = 2 /\ all_reviews # <<>>
    /\ context = "closed" /\ browser = "closed"

\* C9: a failed invocation returns nothing.  When an error has ended the
\* acquisition, also after pages were accumulated, the invocation ends in
\* a failure with a reason and no reviews, and the CLI has written nothing.
C9_FailureReturnsNothing ==
    (pc = "done" /\ exc # NoExc) =>
        /\ response.status \in {500, 2}
        /\ response.detail # ""
        /\ response.reviews = <<>>
        /\ response.reviews_found = 0
        /\ written = <<>>

\* /scrape failed on page 2 with the kept records of page 1 accumulated
C9_Witness ==
    /\ pc = "done" /\ req.front = "api" /\ req.mode = "browser"
    /\ exc.type = "RuntimeError" /\ exc.cause = "Error"
    /\ page_num = 2 /\ all_reviews # <<>>
    /\ response.status = 500 /\ response.reviews = <<>>

\* the exceptions that only the content of a raw record raises
RecordErrors == {"TypeError", "ValueError"}

\* C10: per-record errors are absorbed.  No invocation ends in an
\* exception raised by the content of a single raw record.
C10_NoRecordAborts ==
    pc = "done" => (exc.type \notin RecordErrors /\ exc.cause \notin RecordErrors)

\* /scrape has rejected a use_api request for a missing credential or
\* identifier
Rejected ==
    pc = "done" /\ req.mode = "use_api" /\ exc.type = "HTTPException"

FetchFunctions ==
    {"fetch_g2_reviews_api", "fetch_capterra_reviews_api",
     "fetch_trustradius_via_apify", "scrape"}

\* C11: missing credentials are detected before any network activity.  A
\* use_api request rejected for a missing credential or identifier has
\* issued no network request and invoked no fetch function or scraper.
C11_RejectedBeforeNetwork ==
    Rejected =>
        /\ http = 0
        /\ \A i \in DOMAIN calls : calls[i] \notin FetchFunctions

\* C12: a rejection is a 400.  The caller of a rejected use_api request
\* receives status 400 with the 'Missing ...' detail, never a status 500
\* 'Scrape failed'.
C12_RejectionIs400 ==
    Rejected => (response.status = 400 /\ response.detail = exc.msg)

Count(seq, x) == Cardinality({i \in DOMAIN seq : seq[i] = x})

NotFound == exc.msg = "Product page not found"

\* C13: 'Product page not found' is terminal.  When find_product_page
\* resolves no URL, scrape() raises 'Product page not found'; discovery
\* has then run once, neither extract_reviews_from_page nor
\* go_to_next_page is ever invoked, and the invocation ends in a failure.
C13_NotFoundIsTerminal ==
    /\ [](NotFound =>
            /\ Count(calls, "find_product_page") = 1
            /\ Count(calls, "extract_reviews_from_page") = 0
            /\ Count(calls, "go_to_next_page") = 0
            /\ pc = "done" => response.status \in {500, 2})
    /\ [][(pc = "find" /\ product_page'.url = None) =>
            (pc' = "finally" /\ NotFound')]_vars

\* /scrape answered 500 after a discovery that navigated and resolved
\* nothing
C13_Witness ==
    /\ pc = "done" /\ NotFound /\ response.status = 500
    /\ product_page.url = None /\ Len(product_page.visits) >= 2
    /\ calls = <<"scrape", "find_product_page">>

\* C14: an explicit product_url is used directly.  With product_url
\* supplied, find_product_page of G2, Capterra and TrustRadius returns
\* that URL with the trailing slash stripped and a reviews segment
\* appended when absent, and navigates nowhere.
C14_ProductUrlNormalized ==
    (pc = "goto" /\ req.source # "base" /\ product_page.given # None) =>
        /\ product_page.url = Url(FALSE, TRUE)
        /\ product_page.visits = <<>>

RECURSIVE IsSubsequence(_, _)
\* a is b with some elements left out, the order of the others kept
IsSubsequence(a, b) ==
    IF a = <<>> THEN TRUE
    ELSE IF b = <<>> THEN FALSE
    ELSE IF Head(a) = Head(b) /\ IsSubsequence(Tail(a), Tail(b)) THEN TRUE
    ELSE IsSubsequence(a, Tail(b))

\* C15: arrival order.  The reviews of a result are an order-preserving
\* subsequence of the raw records in the order the pages delivered them;
\* no filter, limit or validation reorders records.
C15_ArrivalOrder ==
    Succeeded => IsSubsequence(SrcOf(response.reviews), served)

\* two different records, both in the result in the order they came
C15_Witness ==
    /\ Succeeded /\ req.mode = "browser" /\ page_num = 2
    /\ Len(response.reviews) = 2
    /\ response.reviews[1].src # response.reviews[2].src
    /\ SrcOf(response.reviews) = served

\* scrape() of a browser-driven invocation has been left
ScrapeLeft == req.mode = "browser" /\ pc \in {"returned", "done"}

\* the failure of p.chromium.launch
LaunchFailure ==
    \/ exc.type = "NotImplementedError"
    \/ exc.msg = "Playwright subprocess creation not supported"

\* C16: timeouts are not fatal.  No timeout of a page-level wait
\* (selector, network idle, navigation) makes a browser-driven invocation
\* fail; the failures that escape scrape() are the browser-launch failure
\* and 'Product page not found' only.
C16_TimeoutsNeverFail ==
    ScrapeLeft =>
        /\ exc.type # "TimeoutError" /\ exc.cause # "TimeoutError"
        /\ exc # NoExc => (LaunchFailure \/ NotFound)

\* C17: the pagination controller terminates.  Every invocation of the
\* loop eventually leaves scrape(), with the accumulated list or with an
\* error, whatever pages and click targets the site presents.
C17_PaginationTerminates == <>(pc = "returned")

\* C18: the early-stop decision.  should_stop_paging answers true exactly
\* when the page has at least one parsable date, none of them inside
\* [start, end], and every parsable date strictly before start; dates that
\* cannot be parsed have no part in the decision.
C18_StopDecision ==
    [][(pc = "decide" /\ exc' = exc) =>
          ((pc' = "finally") <=> AllOlder(reviews))]_vars

\* a is the tail end of b
IsSuffix(a, b) ==
    /\ Len(a) <= Len(b)
    /\ a = SubSeq(b, Len(b) - Len(a) + 1, Len(b))

\* the calls of one loop iteration follow one another in the order
\* extract, stop decision, advance, delay; the next extraction follows the
\* delay
IterationOrder ==
    \A i \in DOMAIN calls : i > 1 =>
        /\ calls[i] = "extract_reviews_from_page" =>
               calls[i - 1] \in {"find_product_page", "sleep"}
        /\ calls[i] = "should_stop_paging" =>
               calls[i - 1] = "extract_reviews_from_page"
        /\ calls[i] = "go_to_next_page" => calls[i - 1] = "should_stop_paging"
        /\ calls[i] = "sleep" => calls[i - 1] = "go_to_next_page"

\* C19: order of one iteration of the pagination loop.  An iteration
\* extracts, then filters and accumulates, then takes the early-stop
\* decision, then advances at most once: an empty extraction ends the loop
\* with no filter, decision or advance; the records kept from a page are in
\* the accumulated list before the stop decision for that page; an advance
\* is attempted only after a non-empty extraction whose early-stop did not
\* fire; the politeness delay follows each successful advance and precedes
\* the next extraction.
C19_IterationOrder ==
    /\ [](/\ IterationOrder
          /\ pc \in {"decide", "advance", "click", "sleep"} =>
                IsSuffix(SelectSeq(reviews, Retained), all_reviews))
    /\ [][/\ (pc = "extract" /\ exc' = exc) =>
               /\ pc' = IF reviews' = <<>> THEN "finally" ELSE "filter"
               /\ all_reviews' = all_reviews
          /\ pc = "filter" => pc' = "decide"
          /\ (pc = "decide" /\ exc' = exc) =>
               /\ pc' = IF ShouldStop(req.source, reviews, req.start, req.end)
                        THEN "finally" ELSE "advance"
               /\ all_reviews' = all_reviews
          /\ pc' = "advance" => (pc = "decide" /\ reviews # <<>>)
          /\ pc = "advance" => pc' = "click"
          /\ pc' = "sleep" => pc = "click"
          /\ pc = "sleep" => pc' = "extract"
          /\ pc' = "extract" => pc \in {"goto", "sleep"}]_vars

\* two pages, each with a kept record, one successful advance with its
\* delay, and a second advance that found nothing to click after the
\* records of the final page had been accumulated
C19_Witness ==
    /\ pc = "finally" /\ exc = NoExc /\ page_num = 2
    /\ Len(all_reviews) = 2 /\ reviews # <<>>
    /\ IsSuffix(SelectSeq(reviews, Retained), all_reviews)
    /\ calls = <<"scrape", "find_product_page",
                 "extract_reviews_from_page", "should_stop_paging",
                 "go_to_next_page", "sleep",
                 "extract_reviews_from_page", "should_stop_paging",
                 "go_to_next_page">>

\* C20: the click targets of go_to_next_page.  The targets are tried in
\* the listed order; a call performs at most one click; it returns true
\* exactly when a click was performed, whatever the wait after the click
\* does; it returns false only when no target could be clicked.
C20_OneClickPerCall ==
    [][pc = "click" =>
          /\ pc' = "click" => sel' = sel + 1
          /\ pc' \in {"sleep", "finally"} =>
                /\ clicks' <= 1
                /\ (pc' = "sleep") <=> (clicks' = 1)]_vars

\* C21: no review is accumulated twice.  When an advance is a "Load more"
\* or "See more" click that adds reviews to the same page, the records of
\* the earlier iterations are not added to the result again: the
\* accumulated list never holds more records than the site has put on its
\* pages.
C21_NoReviewTwice ==
    (req.mode = "browser" /\ pc \in {"decide", "advance", "click", "sleep", "finally"}) =>
        Len(all_reviews) <= arrived

\* C22: the two stop decisions agree.  BaseScraper.should_stop_paging and
\* AsyncBaseScraper.should_stop_paging return the same answer for every
\* page of records and every window, pages with an unparsable date string
\* next to dates older than start included.
C22_StopDecisionsAgree ==
    (pc = "decide" /\ ~StopRaises(reviews)) =>
        (should_stop_paging(reviews, req.start, req.end)
            = base_should_stop_paging(reviews, req.start, req.end))

\* C23: block markers during discovery.  Whenever discovery detects a
\* block marker on the page it landed on, it gives up the strategy it is
\* in without a URL and goes on with the next one; no source returns a
\* reviews URL that it resolved on a page carrying a block marker.
C23_NoUrlFromBlockedPage ==
    (pc = "goto" /\ product_page.given = None) => ~product_page.marker

\* C25: nothing is attempted again.  Within one invocation no discovery
\* navigation goes to a URL it has gone to before: no strategy is run
\* twice and an operation that failed or was blocked is not repeated.
C25_NothingReattempted ==
    \A i, j \in DOMAIN product_page.visits :
        i # j => product_page.visits[i] # product_page.visits[j]

\* the methods the extractor consulted on the page, in order
Consulted == SubSeq(calls, 3, Len(calls))

\* C24: structured metadata first.  The extractor of each source reads the
\* embedded schema.org Review nodes first and returns their records
\* whenever there is at least one; the structural CSS heuristics are
\* consulted only when the structured metadata yields no record.
C24_StructuredMetadataFirst ==
    pc = "filter" =>
        /\ Consulted[1] = "jsonld"
        /\ served # <<>> => (SrcOf(reviews) = served /\ Consulted = <<"jsonld">>)

\* the while loop of fetch_g2_reviews_api or fetch_capterra_reviews_api
InApiLoop == pc \in {"g2_api", "capterra_api"}

\* C26: paging of the API clients.  fetch_g2_reviews_api and
\* fetch_capterra_reviews_api request the pages 1, 2, 3, ... in increasing
\* order, each once, one request per page; they request a further page
\* only after a page of per_page items that left the limit unreached; and
\* against a finite dataset the loop ends.
C26_ApiPaging ==
    /\ [][/\ (~InApiLoop /\ InApiLoop') => api_page' = 1
          /\ InApiLoop =>
                /\ http' = http + 1
                /\ pc' = pc =>
                      /\ api_page' = api_page + 1
                      /\ Len(served') = Len(served) + per_page
                      /\ ~(req.has_limit /\ Len(collected') >= req.limit)
                /\ pc' # pc => api_page' = api_page]_vars
    /\ (InApiLoop ~> ~InApiLoop)

\* G2: page 1 came full, page 2 came empty, and the loop ended after two
\* requests
C26_Witness ==
    /\ req.source = "g2" /\ req.mode = "use_api" /\ pc = "in_range"
    /\ exc = NoExc /\ api_page = 2 /\ http = 2
    /\ Len(served) = per_page /\ Len(raw_reviews) = per_page

\* the last remote response had a status that is no success
NonSuccess == status \in {"unauthorized", "error"}

\* C27: a non-success status ends the acquisition.  After a response with
\* a non-success status the API or crawling-service client raises at once
\* (a 401 of the G2 API as 'unauthorized'); the invocation issues no
\* further request, and no list of records collected so far is returned.
C27_NonSuccessRaises ==
    /\ [](NonSuccess => (raw_reviews = <<>> /\ response.reviews = <<>>))
    /\ [][/\ (http' # http /\ NonSuccess') =>
                /\ exc' # NoExc /\ pc' = "returned"
                /\ status' = "unauthorized" => exc'.msg = "G2 API unauthorized"
          /\ NonSuccess => http' = http]_vars

\* the records of raw in the order of the items they were mapped from
\* are the items, cut at the limit of the request
MapsItems(raw, items) ==
    SrcOf(raw) = IF req.has_limit THEN Take(items, req.limit) ELSE items

G2ApiAliases ==
    [title |-> <<"title", "headline">>,
     review |-> <<"review", "body", "text">>,
     rating |-> <<"rating", "stars">>]

CapterraApiAliases ==
    [title |-> <<"title", "headline">>,
     review |-> <<"review", "text", "body">>,
     rating |-> <<"rating", "overallRating">>]

SnapshotAliases ==
    [title |-> <<"name", "headline">>,
     review |-> <<"reviewBody", "description">>,
     date |-> <<"datePublished", "dateCreated">>]

\* the normalizer a request runs
Aliases(r) ==
    CASE r.mode = "local_html" -> SnapshotAliases
      [] r.source = "g2" -> G2ApiAliases
      [] OTHER -> CapterraApiAliases

\* the keys whose values are numbers: their falsy value is 0, the falsy
\* value of the other keys is the empty string
NumberKeys == {"rating", "stars", "overallRating"}

JNull == [k |-> "null", v |-> ""]
JEmpty == [k |-> "str", v |-> ""]
JZero == [k |-> "num", v |-> "0"]
JValue(key) == [k |-> IF key \in NumberKeys THEN "num" ELSE "str", v |-> key]

\* the JSON objects a normalizer is given: each alias key is absent, null,
\* falsy (0 or "") or holds a value of its own
AliasItems(al) ==
    [UNION {{al[f][i] : i \in DOMAIN al[f]} : f \in DOMAIN al} ->
        {"absent", "null", "falsy", "value"}]

\* it.get(key): None when the key is absent
get(it, key) ==
    CASE it[key] = "value" -> JValue(key)
      [] it[key] = "falsy" -> (IF key \in NumberKeys THEN JZero ELSE JEmpty)
      [] OTHER -> JNull

\* bool(v): None, 0 and "" are false
Truthy(v) == v # JNull /\ v # JEmpty /\ v # JZero

RECURSIVE OrChain(_, _)
\* it.get(k1) or it.get(k2) or ...: the first truthy operand, the last
\* operand when none is truthy
OrChain(it, keys) ==
    IF Len(keys) = 1 THEN get(it, keys[1])
    ELSE LET a == get(it, keys[1]) IN
         IF Truthy(a) THEN a ELSE OrChain(it, Tail(keys))

\* float(rating) if rating is not None else None
FloatOrNone(v) == IF v # JNull THEN [k |-> "float", v |-> v.v] ELSE JNull

\* the fields a normalizer fills from aliases
Normalize(al, it) ==
    [f \in DOMAIN al |->
        IF f = "rating" THEN FloatOrNone(OrChain(it, al[f]))
        ELSE OrChain(it, al[f])]

NormalizerInit ==
    /\ req \in {r \in Requests :
                  /\ r.front = "api" /\ ~r.has_limit /\ r.given = "all"
                  /\ \/ r.mode = "local_html"
                     \/ r.mode = "use_api" /\ r.source \in {"g2", "capterra"}}
    /\ pc = "normalize"
    /\ browser = "none"
    /\ context = "none"
    /\ served \in {<<it>> : it \in AliasItems(Aliases(req))}
    /\ page_num = 0
    /\ reviews = <<>>
    /\ all_reviews = <<>>
    /\ api_page = 1
    /\ polls = 0
    /\ collected = <<>>
    /\ exc = NoExc
    /\ raw_reviews = <<>>
    /\ response = NoResponse
    /\ written = <<>>
    /\ product_page = NoProductPage
    /\ sel = 0
    /\ clicks = 0
    /\ calls = <<>>
    /\ http = 0
    /\ dom = <<>>
    /\ arrived = 0
    /\ status = ""

\* fetch_g2_reviews_api, "for it in items": the aliases of one item
NormalizeG2Api ==
    /\ pc = "normalize" /\ req.mode = "use_api" /\ req.source = "g2"
    /\ collected' = <<Normalize(G2ApiAliases, served[1])>>
    /\ pc' = "normalized"
    /\ UNCHANGED <<req, domVars, browser, context, served, page_num, reviews,
                   all_reviews, api_page, polls, status, exc, callerVars,
                   navVars, historyVars>>

\* fetch_capterra_reviews_api, "for it in items": the aliases of one item
NormalizeCapterraApi ==
    /\ pc = "normalize" /\ req.mode = "use_api" /\ req.source = "capterra"
    /\ collected' = <<Normalize(CapterraApiAliases, served[1])>>
    /\ pc' = "normalized"
    /\ UNCHANGED <<req, domVars, browser, context, served, page_num, reviews,
                   all_reviews, api_page, polls, status, exc, callerVars,
                   navVars, historyVars>>

\* parse_g2_reviews_from_html, "for node in nodes": the aliases of one node
NormalizeSnapshot ==
    /\ pc = "normalize" /\ req.mode = "local_html"
    /\ raw_reviews' = <<Normalize(SnapshotAliases, served[1])>>
    /\ pc' = "normalized"
    /\ UNCHANGED <<req, domVars, scrapeVars, fetchVars, exc, response, written,
                   navVars, historyVars>>

NormalizerNext == NormalizeG2Api \/ NormalizeCapterraApi \/ NormalizeSnapshot

NormalizerSpec == NormalizerInit /\ [][NormalizerNext]_vars

\* whether the item holds a value under the key that is not null
Present(it, key) == it[key] \in {"falsy", "value"}

RECURSIVE FirstPresent(_, _)
\* the value of the first alias, in priority order, that is present and
\* not null; null when there is none
FirstPresent(it, keys) ==
    IF keys = <<>> THEN JNull
    ELSE IF Present(it, keys[1]) THEN get(it, keys[1])
    ELSE FirstPresent(it, Tail(keys))

\* what the normalizer of the request has appended
Normalized == IF req.mode = "local_html" THEN raw_reviews[1] ELSE collected[1]

\* C29: every canonical field of a normalized item is the value of the first
\* alias that is present and not null in the item, a present 0 or empty
\* string included (the rating converted to a float)
C29_FirstPresentAlias ==
    pc = "normalized" =>
        \A f \in DOMAIN Aliases(req) :
            Normalized[f] =
                IF f = "rating"
                THEN FloatOrNone(FirstPresent(served[1], Aliases(req)[f]))
                ELSE FirstPresent(served[1], Aliases(req)[f])

(***************************************************************************)
(* The rating of TrustRadiusScraper.extract_reviews_from_page: the number  *)
(* of the rating node's label, and the title-less fallback that reads      *)
(* "Rating: N out of S" in the review text.  Ratings are in hundredths;    *)
(* the numbers read have one decimal and are given in tenths.              *)
(***************************************************************************)
\* the numbers a label or a text shows on each scale, in tenths
Numbers(scale) == IF scale = 10 THEN {0, 5, 47, 80, 100} ELSE {0, 25, 45, 50}

\* the aria-label, else the inner text, of the rating node; no rating node
NoLabel == [form |-> "", n |-> 0]
RatingLabels ==
    {[form |-> f, n |-> n] : f \in {"N out of 10", "N/10"}, n \in Numbers(10)}
    \cup {[form |-> f, n |-> n] : f \in {"N out of 5", "N/5"}, n \in Numbers(5)}

\* a line "Rating: N out of S" among the first six lines of the text
NoRatingLine == [scale |-> 0, n |-> 0]
RatingLines ==
    {[scale |-> 10, n |-> n] : n \in Numbers(10)}
    \cup {[scale |-> 5, n |-> n] : n \in Numbers(5)}

\* a review element: whether a title selector matches, its rating label and
\* the rating line of its text
RatingElements ==
    [titled : BOOLEAN,
     label : RatingLabels \cup {NoLabel},
     line : RatingLines \cup {NoRatingLine}]

\* pages of one review element, alone or next to a titled review
RatingPages ==
    {<<e>> : e \in RatingElements}
    \cup {<<e, [titled |-> TRUE, label |-> NoLabel, line |-> NoRatingLine]>> :
            e \in RatingElements}

\* round((rating / 10.0) * 5.0, 2) of a number with one decimal, in
\* hundredths
Rescale(tenths) == (tenths * 10 * 5) \div 10

\* "# Rating": float(m.group(1)), rescaled when the label has "/10" in it
LabelRating(al) ==
    IF al = NoLabel THEN RNone
    ELSE IF al.form = "N/10" THEN RFloat(Rescale(al.n))
    ELSE RFloat(al.n * 10)

\* the fallback, "for ln in lines[:6]": the rating line counts when the
\* record has no rating yet
inferred_rating(rating, line) ==
    IF line # NoRatingLine /\ rating = RNone
    THEN IF line.scale = 10 THEN RFloat(Rescale(line.n)) ELSE RFloat(line.n * 10)
    ELSE rating

\* the ratings of the records returned for the elements of a page
TrustRadiusRatings(els) ==
    LET first == [i \in DOMAIN els |-> LabelRating(els[i].label)] IN
    IF els # <<>> /\ \A i \in DOMAIN els : ~els[i].titled
    THEN [i \in DOMAIN els |-> inferred_rating(first[i], els[i].line)]
    ELSE first

RatingInit ==
    /\ req \in {r \in Requests :
                  /\ r.source = "trustradius" /\ r.mode = "browser"
                  /\ r.front = "cli" /\ ~r.has_limit}
    /\ pc = "extract"
    /\ browser = "open"
    /\ context = "open"
    /\ served = <<>>
    /\ page_num = 0
    /\ reviews = <<>>
    /\ all_reviews = <<>>
    /\ api_page = 0
    /\ polls = 0
    /\ collected = <<>>
    /\ exc = NoExc
    /\ raw_reviews = <<>>
    /\ response = NoResponse
    /\ written = <<>>
    /\ product_page = NoProductPage
    /\ sel = 0
    /\ clicks = 0
    /\ calls = <<>>
    /\ http = 0
    /\ dom \in RatingPages
    /\ arrived = 0
    /\ status = ""

\* reviews = extract_reviews_from_page(page) of a page without JSON-LD
ExtractRatings ==
    /\ pc = "extract"
    /\ reviews' = TrustRadiusRatings(dom)
    /\ page_num' = page_num + 1
    /\ pc' = "filter"
    /\ UNCHANGED <<req, domVars, browser, context, served, all_reviews,
                   fetchVars, exc, callerVars, navVars, historyVars>>

RatingSpec == RatingInit /\ [][ExtractRatings]_vars

\* the fallback runs on a page whose records all lack a title
FallbackRuns == \A i \in DOMAIN dom : ~dom[i].titled

\* C30: a rating read on the 10-point scale (a label "N out of 10" or
\* "N/10", or a text line "Rating: N out of 10" read for an element without
\* a rating node) is emitted as N * 5 / 10, within [0, 5]; a rating read on
\* the 5-point scale is emitted as it stands
C30_TenPointRescaled ==
    (pc = "filter" /\ page_num = 1) =>
        \A i \in DOMAIN dom :
            LET e == dom[i] IN
            /\ e.label.form \in {"N out of 10", "N/10"} =>
                  /\ reviews[i] = RFloat(e.label.n * 5)
                  /\ reviews[i].v >= 0 /\ reviews[i].v <= 500
            /\ e.label.form \in {"N out of 5", "N/5"} =>
                  reviews[i] = RFloat(e.label.n * 10)
            /\ (e.label = NoLabel /\ FallbackRuns /\ e.line.scale = 10) =>
                  /\ reviews[i] = RFloat(e.line.n * 5)
                  /\ reviews[i].v >= 0 /\ reviews[i].v <= 500
            /\ (e.label = NoLabel /\ FallbackRuns /\ e.line.scale = 5) =>
                  reviews[i] = RFloat(e.line.n * 10)

====
